---- MODULE Spec2Model ----
(***************************************************************************)
(* Model of app/scripts/components/importExport/Import.js (Laverna).       *)
(*                                                                         *)
(* One import operation: init() classifies options.files[0] and runs the   *)
(* archive path (importData), the key path (importKey) or nothing.         *)
(* Strings that the code splits or searches are sequences of tokens whose  *)
(* concatenation is the string ("." and "/" are tokens of their own), so   *)
(* split, indexOf and replace are computed on the text, not assumed.       *)
(* FileReader, JSZip and the Radio collections are the environment: each   *)
(* asynchronous call they serve settles with success or failure.           *)
(***************************************************************************)
EXTENDS Integers, Sequences, FiniteSets, TLC

\* Largest number of entries of an archive.
MaxEntries == 3

\* Sizes of input files lie in KeyMinSize - SizeSpread .. KeyMinSize + SizeSpread.
SizeSpread == 1

\* Size threshold of isKey (file.size >= 2500).
KeyMinSize == 2500

\* Delay of the deferred reload of onSuccess, in ms.
ReloadDelay == 800

-----------------------------------------------------------------------------
(* String helpers of the JavaScript runtime and of underscore.             *)

\* s.indexOf(sub) on token sequences, 0-based, -1 when absent.
RECURSIVE IndexFrom(_, _, _)
IndexFrom(s, sub, i) ==
    IF i + Len(sub) > Len(s) THEN -1
    ELSE IF SubSeq(s, i + 1, i + Len(sub)) = sub THEN i
    ELSE IndexFrom(s, sub, i + 1)

IndexOf(s, sub) == IndexFrom(s, sub, 0)

\* s.split(sep): the pieces of s between the occurrences of sep.
RECURSIVE Split(_, _)
Split(s, sep) ==
    LET i == IndexOf(s, sep)
    IN  IF i = -1 THEN <<s>>
        ELSE <<SubSeq(s, 1, i)>> \o Split(SubSeq(s, i + Len(sep) + 1, Len(s)), sep)

\* _.last(array)
Last(a) == a[Len(a)]

\* The final dotted suffix as the code computes it: _.last(name.split('.')).
Suffix(name) == Last(Split(name, <<".">>))

\* name.replace(/\.json$/, '.md')
ReplaceJsonByMd(name) ==
    IF Len(name) >= 2 /\ SubSeq(name, Len(name) - 1, Len(name)) = <<".", "json">>
    THEN SubSeq(name, 1, Len(name) - 2) \o <<".", "md">>
    ELSE name

\* _.capitalize(type) on the whitelisted type names.
Capitalize(type) ==
    CASE type = <<"notebooks">> -> "Notebooks"
      [] type = <<"tags">>      -> "Tags"
      [] type = <<"configs">>   -> "Configs"
      [] type = <<"users">>     -> "Users"
      [] type = <<"files">>     -> "Files"
      [] OTHER                  -> "Other"

-----------------------------------------------------------------------------
(* Input files.                                                            *)

MediaTypes == {"application/zip", "text/plain", "image/png", ""}

FileNames == {
    <<"backup", ".", "zip">>,
    <<"key", ".", "asc">>,
    <<"zip", ".", "asc">>,
    <<"key", ".", "asc", ".", "txt">>,
    <<"zip">>,
    <<"notes">> }

FileSizes == (KeyMinSize - SizeSpread) .. (KeyMinSize + SizeSpread)

File(t, n, s) == [type |-> t, name |-> n, size |-> s]

AllFiles == { File(t, n, s) : t \in MediaTypes, n \in FileNames, s \in FileSizes }

\* isZipFile(file)
isZipFile(file) ==
    \/ file.type = "application/zip"
    \/ Suffix(file.name) = <<"zip">>

\* isKey(file): size > KeyMinSize, an off-by-one variant of the threshold.
isKeyStrict(file) ==
    /\ file.type = "text/plain"
    /\ Suffix(file.name) = <<"asc">>
    /\ file.size > KeyMinSize

\* isKey(file)
isKey(file) ==
    /\ file.type = "text/plain"
    /\ Suffix(file.name) = <<"asc">>
    /\ file.size >= KeyMinSize

\* The branch init() takes for options.files.
Classify(fs) ==
    IF Len(fs) > 0
    THEN IF isZipFile(fs[1]) THEN "Archive"
         ELSE IF isKey(fs[1]) THEN "Key"
         ELSE "Unknown"
    ELSE "None"

-----------------------------------------------------------------------------
(* Archives: what zip.loadAsync yields.  The text of an entry is either    *)
(* the serialisation of a JSON value or raw text that is not JSON.         *)

Json(v) == [src |-> "json", val |-> v]
Raw(s)  == [src |-> "raw", val |-> s]

Entry(n, d, t) == [name |-> n, dir |-> d, text |-> t]

Catalogue == <<
    Entry(<<"export", "/", "default", "/">>, TRUE, Raw("")),
    Entry(<<"export", "/", "default", "/", "notebooks", ".", "json">>, FALSE,
          Json(<<[id |-> "nb1"], [id |-> "nb2"]>>)),
    Entry(<<"export", "/", "default", "/", "configs", ".", "json">>, FALSE,
          Json(<<[name |-> "encrypt", value |-> "1"]>>)),
    Entry(<<"export", "/", "default", "/", "tags", ".", "json">>, FALSE, Raw("{")),
    Entry(<<"export", "/", "notes-db", "/", "notes", "/", "abc", ".", "json">>, FALSE,
          Json([id |-> "abc", title |-> "t"])),
    Entry(<<"export", "/", "notes-db", "/", "notes", "/", "abc", ".", "md">>, FALSE,
          Raw("hello")),
    Entry(<<"export", "/", "p1", "/", "notes", "/", "enc", ".", "json">>, FALSE,
          Json([id |-> "enc", encryptedData |-> <<"c", "t">>, content |-> Raw("inline")])),
    Entry(<<"export", "/", "p1", "/", "notes", "/", "lonely", ".", "json">>, FALSE,
          Json([id |-> "lonely", encryptedData |-> <<>>])),
    Entry(<<"export", "/", "p1", "/", "unknowntype", ".", "json">>, FALSE, Json(<<>>)),
    Entry(<<"export", "/", "p1", "/", "files", "/", "f1", ".", "json">>, FALSE,
          Json([id |-> "f1", src |-> "blob"])),
    Entry(<<"export", "/", "p1", "/", "configs", ".", "json">>, FALSE,
          Json(<<[name |-> "encrypt", value |-> "0"]>>)),
    Entry(<<"export", "/", "p1", "/", "notes", "/", "enc", ".", "md">>, FALSE,
          Raw("stale")),
    Entry(<<"export", "/", "p1", "/", "notes", "/", "n2", ".", "json">>, FALSE,
          Json([id |-> "n2", encryptedData |-> <<>>, content |-> Raw("old")])),
    Entry(<<"export", "/", "p1", "/", "notes", "/", "n2", ".", "md">>, FALSE,
          Raw("world")),
    Entry(<<"data", ".", "json">>, FALSE, Json(<<>>)) >>

\* The entries of the catalogue chosen by the index set S, in catalogue order.
RECURSIVE Pick(_, _)
Pick(S, i) ==
    IF i > Len(Catalogue) THEN <<>>
    ELSE (IF i \in S THEN <<Catalogue[i]>> ELSE <<>>) \o Pick(S, i + 1)

Archives ==
    { Pick(S, 1) : S \in { T \in SUBSET (1 .. Len(Catalogue)) : Cardinality(T) <= MaxEntries } }

\* Texts a key file may hold.
KeyTexts == {"KEY-A", "KEY-B"}

\* JSON.parse(text)
JSONParse(text) ==
    IF text.src = "json" THEN [ok |-> TRUE, val |-> text.val] ELSE [ok |-> FALSE]

\* zip.file(name): index of the non-directory entry of that name, 0 for null.
ZipFile(zf, name) ==
    IF \E i \in DOMAIN zf : zf[i].name = name /\ ~zf[i].dir
    THEN CHOOSE i \in DOMAIN zf : zf[i].name = name /\ ~zf[i].dir
    ELSE 0

\* import(): the entries that are neither directories nor non-JSON files.
Eligible(f) == ~f.dir /\ Suffix(f.name) = <<"json">>

\* import(): file.name.indexOf('configs.json') !== -1
IsConfigName(f) == IndexOf(f.name, <<"configs", ".", "json">>) # -1

\* import(): the entries pushed to promises (phase 1).
Phase1(zf) == { i \in DOMAIN zf : Eligible(zf[i]) /\ ~IsConfigName(zf[i]) }

\* import(): every eligible entry named like a configuration file.
ConfigEntries(zf) == { i \in DOMAIN zf : Eligible(zf[i]) /\ IsConfigName(zf[i]) }

\* import(): configFile after the loop, the last such entry; 0 for undefined.
ConfigFile(zf) ==
    IF ConfigEntries(zf) = {} THEN 0
    ELSE CHOOSE i \in ConfigEntries(zf) : \A j \in ConfigEntries(zf) : j <= i

-----------------------------------------------------------------------------
(* Entry decode and route: readFile and the record importers.  Each        *)
(* operator yields the state of the entry's import after the callback ran: *)
(* st is "saving" (a persistence call is pending), "md" (the sibling's     *)
(* decode is pending), "ready" (readMarkdown's promise is resolved and the *)
(* then-callback of importNote is queued), "ok" (resolved) or "failed" (it *)
(* threw).                                                                 *)

\* The value of an out-of-range array index or of a missing variable.
Undefined == <<"<undefined>">>

\* Radio.request('collections/Notes', 'saveModelObject', {data, profileId, dontValidate})
NotesCall(data, profileId) ==
    [channel |-> <<"collections", "Notes">>, method |-> "saveModelObject",
     args |-> [data |-> data, profileId |-> profileId, dontValidate |-> TRUE]]

\* Radio.request('collections/Files', 'saveModelObject', {data, profileId})
FilesCall(data, profileId) ==
    [channel |-> <<"collections", "Files">>, method |-> "saveModelObject",
     args |-> [data |-> data, profileId |-> profileId]]

\* Radio.request(`collections/${type}`, 'saveFromArray', {profileId, values})
CollectionCall(type, profileId, values) ==
    [channel |-> <<"collections", Capitalize(type)>>, method |-> "saveFromArray",
     args |-> [profileId |-> profileId, values |-> values]]

\* The saveConfig request of importKey with value and name interchanged.
KeyCallSwapped(value) ==
    [channel |-> <<"collections", "Configs">>, method |-> "saveConfig",
     args |-> [config |-> [value |-> "privateKey", name |-> value]]]

\* Radio.request('collections/Configs', 'saveConfig', {config: {value, name}})
KeyCall(value) ==
    [channel |-> <<"collections", "Configs">>, method |-> "saveConfig",
     args |-> [config |-> [value |-> value, name |-> "privateKey"]]]

Started(data, call) == [st |-> "saving", data |-> data, sent |-> <<call>>, err |-> "none"]
Waiting(data)       == [st |-> "md", data |-> data, sent |-> <<>>, err |-> "none"]
Ready(data)         == [st |-> "ready", data |-> data, sent |-> <<>>, err |-> "none"]
Resolved(data)      == [st |-> "ok", data |-> data, sent |-> <<>>, err |-> "none"]
Thrown(data, e)     == [st |-> "failed", data |-> data, sent |-> <<>>, err |-> e]

\* data.content = content
SetContent(data, content) ==
    [k \in DOMAIN data \cup {"content"} |-> IF k = "content" THEN content ELSE data[k]]

\* readMarkdown: data.encryptedData && data.encryptedData.length
HasEncrypted(data) ==
    "encryptedData" \in DOMAIN data /\ Len(data.encryptedData) > 0

\* readFile: path[1] === 'notes-db' ? 'default' : path[1], without the mapping.
ProfileIdRaw(path) ==
    IF Len(path) >= 2 THEN path[2] ELSE Undefined

\* readFile: path[1] === 'notes-db' ? 'default' : path[1]
ProfileId(path) ==
    IF Len(path) >= 2
    THEN IF path[2] = <<"notes-db">> THEN <<"default">> ELSE path[2]
    ELSE Undefined

\* importNote with readMarkdown resolving when the sibling is absent.
importNoteLenient(zf, name, profileId, data) ==
    IF HasEncrypted(data) \/ ZipFile(zf, ReplaceJsonByMd(name)) = 0
    THEN Ready(data)
    ELSE Waiting(data)

\* importNote with readMarkdown reading the sibling whatever the record carries.
importNoteAlwaysSibling(zf, name, profileId, data) ==
    IF ZipFile(zf, ReplaceJsonByMd(name)) = 0
    THEN Thrown(data, "TypeError")
    ELSE Waiting(data)

\* importNote as far as it runs inside readFile's callback: readMarkdown returns
\* Promise.resolve(), throws on a missing sibling, or starts the sibling's decode;
\* the request of importNote is left to its then-callback, a later promise job.
importNote(zf, name, profileId, data) ==
    IF HasEncrypted(data)
    THEN Ready(data)
    ELSE IF ZipFile(zf, ReplaceJsonByMd(name)) = 0
         THEN Thrown(data, "TypeError")
         ELSE Waiting(data)

\* The then-callback of readMarkdown leaving the record as it was parsed.
readMarkdownContentStale(data, content) == Ready(data)

\* readMarkdown: the then-callback of the sibling's decode, data.content = content.
readMarkdownContent(data, content) == Ready(SetContent(data, content))

\* importNote: the then-callback of readMarkdown's promise, the notes request.
importNoteBody(profileId, data) == Started(data, NotesCall(data, profileId))

\* importFile
importFile(profileId, data) == Started(data, FilesCall(data, profileId))

\* The whitelist of importCollection.
CollectionTypes == { <<"notebooks">>, <<"tags">>, <<"configs">>, <<"users">>, <<"files">> }

\* importCollection without the whitelist test.
importCollectionAny(profileId, data, type) ==
    Started(data, CollectionCall(type, profileId, data))

\* importCollection
importCollection(profileId, data, type) ==
    IF type \notin CollectionTypes
    THEN Resolved(data)
    ELSE Started(data, CollectionCall(type, profileId, data))

\* The then-callback of readFile, run with the decoded text res of entry file.
readFile(zf, file, res) ==
    LET path      == Split(file.name, <<"/">>)
        profileId == ProfileId(path)
        parsed    == JSONParse(res)
    IN  IF ~parsed.ok THEN Thrown(<<>>, "SyntaxError")
        ELSE IF Len(path) >= 3 /\ path[3] = <<"notes">>
             THEN importNote(zf, file.name, profileId, parsed.val)
        ELSE IF Len(path) >= 3 /\ path[3] = <<"files">>
             THEN importFile(profileId, parsed.val)
        ELSE IF Len(path) < 3
             THEN Thrown(parsed.val, "TypeError")
        ELSE importCollection(profileId, parsed.val, Split(path[3], <<".", "json">>)[1])

-----------------------------------------------------------------------------
(* The operation as a state machine.                                       *)

VARIABLES
    files,      \* options.files
    pc,         \* where the promise chain of init() stands
    zipFiles,   \* zip.files once the archive is loaded
    task,       \* per entry of zip.files: the state of its readFile promise
    firstErr,   \* the reason Promise.all rejects with: the first phase-1 failure
    reason,     \* the reason the chain rejected with
    keyText,    \* the text readText resolved with
    keySent,    \* the persistence calls of the key path
    log,        \* signals and top-level calls in the order the code makes them
    timers,     \* number of window.setTimeout calls
    reloaded    \* whether document.location.reload ran

vars == <<files, pc, zipFiles, task, firstErr, reason, keyText, keySent, log, timers, reloaded>>

\* The files of an operation: none, or one file (only files[0] is looked at).
InputFiles ==
    {<<>>} \cup { <<f>> : f \in { g \in AllFiles :
                     \/ ~isZipFile(g) /\ g.name \in { <<"key", ".", "asc">>, <<"notes">> }
                     \/ g = File("application/zip", <<"notes">>, KeyMinSize)
                     \/ g = File("", <<"backup", ".", "zip">>, KeyMinSize) } }

Init ==
    /\ files \in InputFiles
    /\ pc = "start"
    /\ zipFiles = <<>>
    /\ task = <<>>
    /\ firstErr = "none"
    /\ reason = "none"
    /\ keyText = "none"
    /\ keySent = <<>>
    /\ log = <<>>
    /\ timers = 0
    /\ reloaded = FALSE

Idle     == [st |-> "none", data |-> <<>>, sent |-> <<>>, err |-> "none"]
Decoding == [st |-> "decoding", data |-> <<>>, sent |-> <<>>, err |-> "none"]

\* importData up to its first asynchronous call (reader.readAsArrayBuffer in readZip).
importData ==
    /\ log' = log \o <<"started", "readAsArrayBuffer">>
    /\ pc' = "readingZip"

\* importKey up to its first asynchronous call (reader.readAsText in readText).
importKey ==
    /\ log' = log \o <<"started", "readAsText">>
    /\ pc' = "readingKey"

\* init() with the started signal triggered before the file is classified.
initNoopStarted ==
    /\ pc' = "noop"
    /\ log' = log \o <<"started">>

\* init(): Promise.resolve() when there is nothing to import.
initNoop ==
    /\ pc' = "noop"
    /\ log' = log

init ==
    /\ pc = "start"
    /\ IF Classify(files) = "Archive" THEN importData
       ELSE IF Classify(files) = "Key" THEN importKey
       ELSE initNoop
    /\ UNCHANGED <<files, zipFiles, task, firstErr, reason, keyText, keySent, timers, reloaded>>

\* readZip: reader.onload fires and zip.loadAsync starts.
ReaderLoaded ==
    /\ pc = "readingZip"
    /\ pc' = "loading"
    /\ UNCHANGED <<files, zipFiles, task, firstErr, reason, keyText, keySent, log, timers, reloaded>>

\* readZip, readText: the read fails; no onerror handler is set, the promise stays pending.
ReaderFailed ==
    /\ pc \in {"readingZip", "readingKey"}
    /\ pc' = "hung"
    /\ UNCHANGED <<files, zipFiles, task, firstErr, reason, keyText, keySent, log, timers, reloaded>>

\* readZip: loadAsync rejects, reject(err); the chain skips to the catch.
LoadRejected ==
    /\ pc = "loading"
    /\ pc' = "rejected"
    /\ reason' = "CorruptArchive"
    /\ UNCHANGED <<files, zipFiles, task, firstErr, keyText, keySent, log, timers, reloaded>>

\* import(zip) up to Promise.all: starts readFile for every phase-1 entry.
import(zf) ==
    /\ zipFiles' = zf
    /\ task' = [i \in DOMAIN zf |-> IF i \in Phase1(zf) THEN Decoding ELSE Idle]
    /\ pc' = "phase1"

\* readZip: loadAsync resolves, resolve(this.zip), then import(zip).
LoadResolved ==
    /\ pc = "loading"
    /\ \E zf \in Archives : import(zf)
    /\ UNCHANGED <<files, firstErr, reason, keyText, keySent, log, timers, reloaded>>

\* Settle, had the first phase-1 failure cancelled the imports still in flight:
\* their next callback gives up instead of going on.
SettleCancelled(i, t) ==
    /\ task' = [task EXCEPT ![i] =
                    IF firstErr # "none"
                    THEN [st |-> "failed", data |-> task[i].data, sent |-> task[i].sent,
                          err |-> "Cancelled"]
                    ELSE t]
    /\ firstErr' = IF t.st = "failed" /\ i \in Phase1(zipFiles) /\ firstErr = "none"
                   THEN t.err ELSE firstErr
    /\ UNCHANGED <<files, pc, zipFiles, reason, keyText, keySent, log, timers, reloaded>>

\* The task of entry i moves to t; a failure of a phase-1 entry is the first
\* one Promise.all sees when none came before.
Settle(i, t) ==
    /\ task' = [task EXCEPT ![i] = t]
    /\ firstErr' = IF t.st = "failed" /\ i \in Phase1(zipFiles) /\ firstErr = "none"
                   THEN t.err ELSE firstErr
    /\ UNCHANGED <<files, pc, zipFiles, reason, keyText, keySent, log, timers, reloaded>>

\* readFile: the entry's decode resolves and the then-callback runs.
DecodeResolved(i) ==
    /\ task[i].st = "decoding"
    /\ Settle(i, readFile(zipFiles, zipFiles[i], zipFiles[i].text))

\* readFile: the entry's decode rejects.
DecodeRejected(i) ==
    /\ task[i].st = "decoding"
    /\ Settle(i, Thrown(<<>>, "DecodeError"))

\* readMarkdown: the sibling's decode resolves and its then-callback sets the content.
MarkdownResolved(i) ==
    /\ task[i].st = "md"
    /\ Settle(i, readMarkdownContent(task[i].data,
                 zipFiles[ZipFile(zipFiles, ReplaceJsonByMd(zipFiles[i].name))].text))

\* readMarkdown: the sibling's decode rejects.
MarkdownRejected(i) ==
    /\ task[i].st = "md"
    /\ Settle(i, [task[i] EXCEPT !.st = "failed", !.err = "DecodeError"])

\* importNote: the then-callback of readMarkdown's promise runs, in a promise job
\* of its own, and issues the notes request.
NoteRequested(i) ==
    /\ task[i].st = "ready"
    /\ Settle(i, importNoteBody(ProfileId(Split(zipFiles[i].name, <<"/">>)), task[i].data))

\* The persistence call of entry i resolves.
SaveResolved(i) ==
    /\ task[i].st = "saving"
    /\ Settle(i, [task[i] EXCEPT !.st = "ok"])

\* The persistence call of entry i rejects.
SaveRejected(i) ==
    /\ task[i].st = "saving"
    /\ Settle(i, [task[i] EXCEPT !.st = "failed", !.err = "PersistError"])

\* import: the callback of Promise.all(promises).then, had it not waited for the promises.
AllResolvedEarly ==
    /\ pc = "phase1"
    /\ IF ConfigFile(zipFiles) = 0
       THEN /\ pc' = "rejected"
            /\ reason' = "TypeError"
            /\ task' = task
       ELSE /\ pc' = "phase2"
            /\ reason' = reason
            /\ task' = [task EXCEPT ![ConfigFile(zipFiles)] = Decoding]
    /\ UNCHANGED <<files, zipFiles, firstErr, keyText, keySent, log, timers, reloaded>>

\* import: the then-callback skipping the configuration entry when promises is empty.
AllResolvedSkipsEmpty ==
    /\ pc = "phase1"
    /\ \A i \in Phase1(zipFiles) : task[i].st = "ok"
    /\ IF Phase1(zipFiles) = {}
       THEN /\ pc' = "resolved"
            /\ reason' = reason
            /\ task' = task
       ELSE IF ConfigFile(zipFiles) = 0
       THEN /\ pc' = "rejected"
            /\ reason' = "TypeError"
            /\ task' = task
       ELSE /\ pc' = "phase2"
            /\ reason' = reason
            /\ task' = [task EXCEPT ![ConfigFile(zipFiles)] = Decoding]
    /\ UNCHANGED <<files, zipFiles, firstErr, keyText, keySent, log, timers, reloaded>>

\* import: the callback of Promise.all(promises).then, had the promises been
\* awaited with allSettled: it runs once none of them is pending.
AllResolvedSettled ==
    /\ pc = "phase1"
    /\ \A i \in Phase1(zipFiles) : task[i].st \in {"ok", "failed"}
    /\ IF ConfigFile(zipFiles) = 0
       THEN /\ pc' = "rejected"
            /\ reason' = "TypeError"
            /\ task' = task
       ELSE /\ pc' = "phase2"
            /\ reason' = reason
            /\ task' = [task EXCEPT ![ConfigFile(zipFiles)] = Decoding]
    /\ UNCHANGED <<files, zipFiles, firstErr, keyText, keySent, log, timers, reloaded>>

\* import: every phase-1 promise resolved, Promise.all resolves and its then-callback
\* runs readFile(zip, configFile); file.name of an undefined configFile throws.
AllResolved ==
    /\ pc = "phase1"
    /\ \A i \in Phase1(zipFiles) : task[i].st = "ok"
    /\ IF ConfigFile(zipFiles) = 0
       THEN /\ pc' = "rejected"
            /\ reason' = "TypeError"
            /\ task' = task
       ELSE /\ pc' = "phase2"
            /\ reason' = reason
            /\ task' = [task EXCEPT ![ConfigFile(zipFiles)] = Decoding]
    /\ UNCHANGED <<files, zipFiles, firstErr, keyText, keySent, log, timers, reloaded>>

\* import: a phase-1 promise rejected, Promise.all rejects with the first reason
\* and the then-callback is skipped.
AllRejected ==
    /\ pc = "phase1"
    /\ \E i \in Phase1(zipFiles) : task[i].st = "failed"
    /\ pc' = "rejected"
    /\ reason' = firstErr
    /\ UNCHANGED <<files, zipFiles, task, firstErr, keyText, keySent, log, timers, reloaded>>

\* import: a failure of the configuration entry swallowed, import's promise resolving.
ConfigSettledSwallow ==
    /\ pc = "phase2"
    /\ task[ConfigFile(zipFiles)].st \in {"ok", "failed"}
    /\ pc' = "resolved"
    /\ UNCHANGED <<files, zipFiles, task, firstErr, reason, keyText, keySent, log, timers, reloaded>>

\* import: the then-callback not returning readFile's promise, so that import's
\* promise resolves without waiting for the configuration entry.
ConfigSettledEarly ==
    /\ pc = "phase2"
    /\ pc' = "resolved"
    /\ UNCHANGED <<files, zipFiles, task, firstErr, reason, keyText, keySent, log, timers, reloaded>>

\* import: the promise of readFile(zip, configFile) settles and with it import's.
ConfigSettled ==
    /\ pc = "phase2"
    /\ task[ConfigFile(zipFiles)].st \in {"ok", "failed"}
    /\ IF task[ConfigFile(zipFiles)].st = "ok"
       THEN pc' = "resolved" /\ reason' = reason
       ELSE pc' = "rejected" /\ reason' = task[ConfigFile(zipFiles)].err
    /\ UNCHANGED <<files, zipFiles, task, firstErr, keyText, keySent, log, timers, reloaded>>

\* importKey: readText resolves with the text and saveConfig is requested.
KeyLoaded ==
    /\ pc = "readingKey"
    /\ \E v \in KeyTexts :
         /\ keyText' = v
         /\ keySent' = keySent \o <<KeyCall(v)>>
    /\ pc' = "savingKey"
    /\ UNCHANGED <<files, zipFiles, task, firstErr, reason, log, timers, reloaded>>

\* importKey: the saveConfig request resolves.
KeySaveResolved ==
    /\ pc = "savingKey"
    /\ pc' = "resolved"
    /\ UNCHANGED <<files, zipFiles, task, firstErr, reason, keyText, keySent, log, timers, reloaded>>

\* importKey: the saveConfig request rejects.
KeySaveRejected ==
    /\ pc = "savingKey"
    /\ pc' = "rejected"
    /\ reason' = "PersistError"
    /\ UNCHANGED <<files, zipFiles, task, firstErr, keyText, keySent, log, timers, reloaded>>

\* onSuccess
onSuccess ==
    /\ pc = "resolved"
    /\ log' = log \o <<"completed", "setTimeout">>
    /\ timers' = timers + 1
    /\ pc' = "done"
    /\ UNCHANGED <<files, zipFiles, task, firstErr, reason, keyText, keySent, reloaded>>

\* onError
onError ==
    /\ pc = "rejected"
    /\ log' = log \o <<"completed:error">>
    /\ pc' = "done"
    /\ UNCHANGED <<files, zipFiles, task, firstErr, reason, keyText, keySent, timers, reloaded>>

\* The timer of onSuccess fires after ReloadDelay: document.location.reload().
Reload ==
    /\ timers > 0
    /\ ~reloaded
    /\ reloaded' = TRUE
    /\ UNCHANGED <<files, pc, zipFiles, task, firstErr, reason, keyText, keySent, log, timers>>

Next ==
    \/ init
    \/ ReaderLoaded
    \/ ReaderFailed
    \/ LoadResolved
    \/ LoadRejected
    \/ \E i \in DOMAIN task : DecodeResolved(i)
    \/ \E i \in DOMAIN task : DecodeRejected(i)
    \/ \E i \in DOMAIN task : MarkdownResolved(i)
    \/ \E i \in DOMAIN task : MarkdownRejected(i)
    \/ \E i \in DOMAIN task : NoteRequested(i)
    \/ \E i \in DOMAIN task : SaveResolved(i)
    \/ \E i \in DOMAIN task : SaveRejected(i)
    \/ AllResolved
    \/ AllRejected
    \/ ConfigSettled
    \/ KeyLoaded
    \/ KeySaveResolved
    \/ KeySaveRejected
    \/ onSuccess
    \/ onError
    \/ Reload

Spec == Init /\ [][Next]_vars

\* The classifier alone: init() applied to every file of AllFiles.
InitClassify ==
    /\ files \in ({<<>>} \cup { <<f>> : f \in AllFiles })
    /\ pc = "start"
    /\ zipFiles = <<>>
    /\ task = <<>>
    /\ firstErr = "none"
    /\ reason = "none"
    /\ keyText = "none"
    /\ keySent = <<>>
    /\ log = <<>>
    /\ timers = 0
    /\ reloaded = FALSE

NextClassify == init

SpecClassify == InitClassify /\ [][NextClassify]_vars

-----------------------------------------------------------------------------
(* Vocabulary of the properties.                                           *)

\* Number of occurrences of x in the sequence l.
Count(l, x) == Cardinality({ k \in DOMAIN l : l[k] = x })

\* Position of the first occurrence of x in l, 0 when absent.
Pos(l, x) ==
    IF \E k \in DOMAIN l : l[k] = x
    THEN CHOOSE k \in DOMAIN l : l[k] = x /\ \A j \in DOMAIN l : l[j] = x => k <= j
    ELSE 0

Max(S) == CHOOSE m \in S : \A n \in S : n <= m

\* The text after the last "." of a name, the whole name when it has none.
DottedSuffix(name) ==
    LET dots == { k \in DOMAIN name : name[k] = "." }
    IN  IF dots = {} THEN name ELSE SubSeq(name, Max(dots) + 1, Len(name))

\* The class of a file as the design states it.
FileClass(f) ==
    IF f.type = "application/zip" \/ DottedSuffix(f.name) = <<"zip">> THEN "Archive"
    ELSE IF f.type = "text/plain" /\ DottedSuffix(f.name) = <<"asc">> /\ f.size >= 2500
         THEN "Key"
    ELSE "Unknown"

\* The class of the operation's input.
InputClass == IF files = <<>> THEN "None" ELSE FileClass(files[1])

\* The import of entry i has settled.
Settled(i) == task[i].st \in {"ok", "failed"}

\* The import of entry i has begun.
Begun(i) == task[i].st # "none"

\* completed was emitted, with or without an error payload.
CompletedEmitted(l) == Count(l, "completed") + Count(l, "completed:error") > 0

\* Every persistence call made so far by the entries of the archive.
EntryCalls == UNION { { task[i].sent[k] : k \in DOMAIN task[i].sent } : i \in DOMAIN task }

\* What the design reads off an entry name, for every name of the catalogue:
\* its '/'-separated segments, whether its final dotted suffix is json and
\* whether it contains configs.json.
NameFacts ==
    [ n \in { Catalogue[k].name : k \in DOMAIN Catalogue } |->
        [ path   |-> Split(n, <<"/">>),
          json   |-> DottedSuffix(n) = <<"json">>,
          config |-> \E k \in 1 .. Len(n) - 2 : SubSeq(n, k, k + 2) = <<"configs", ".", "json">> ] ]

\* Path segment k (0-based, as in the code) of entry i.
Segment(i, k) ==
    LET path == NameFacts[zipFiles[i].name].path
    IN  IF k + 1 <= Len(path) THEN path[k + 1] ELSE Undefined

\* Entry i is a non-directory entry whose final dotted suffix is json.
JsonEntry(i) == ~zipFiles[i].dir /\ NameFacts[zipFiles[i].name].json

\* The phase-1 entries: the json entries whose name does not contain configs.json.
PhaseOne == { i \in DOMAIN zipFiles : JsonEntry(i) /\ ~NameFacts[zipFiles[i].name].config }

\* The json entries whose name contains configs.json.
ConfigNamed == { i \in DOMAIN zipFiles : JsonEntry(i) /\ NameFacts[zipFiles[i].name].config }

\* The deferred configuration entry: the last of ConfigNamed, 0 when there is none.
Deferred == IF ConfigNamed = {} THEN 0 ELSE Max(ConfigNamed)

\* Entry i is a note record without inline encrypted content whose sibling exists.
NoteWithSibling(i) ==
    /\ JsonEntry(i)
    /\ Segment(i, 2) = <<"notes">>
    /\ zipFiles[i].text.src = "json"
    /\ ~HasEncrypted(zipFiles[i].text.val)
    /\ \E j \in DOMAIN zipFiles :
         /\ ~zipFiles[j].dir
         /\ zipFiles[j].name = SubSeq(zipFiles[i].name, 1, Len(zipFiles[i].name) - 1) \o <<"md">>

\* The text of the sibling of note entry i.
SiblingText(i) ==
    LET j == CHOOSE j \in DOMAIN zipFiles :
                 /\ ~zipFiles[j].dir
                 /\ zipFiles[j].name = SubSeq(zipFiles[i].name, 1, Len(zipFiles[i].name) - 1) \o <<"md">>
    IN  zipFiles[j].text

\* Entry i is a bulk-collection entry whose declared type is not whitelisted.
UnknownBulk(i) ==
    /\ JsonEntry(i)
    /\ Segment(i, 2) # Undefined
    /\ Segment(i, 2) \notin { <<"notes">>, <<"files">> }
    /\ Split(Segment(i, 2), <<".", "json">>)[1] \notin
         { <<"notebooks">>, <<"tags">>, <<"configs">>, <<"users">>, <<"files">> }

\* The archive was opened and import(zip) ran.
ArchiveImported == Pos(log, "readAsArrayBuffer") > 0 /\ pc \in {"phase1", "phase2", "resolved", "rejected", "done"}
                   /\ reason # "CorruptArchive"

\* In this step entry i starts a decode or issues a persistence call.
WorkBegins(i) ==
    \/ task'[i].sent # task[i].sent
    \/ task'[i].st \in {"decoding", "md"} /\ task'[i].st # task[i].st

-----------------------------------------------------------------------------
(* Properties.                                                             *)

\* C1 - Phase barrier: the import of a configuration entry (its decode, and so
\* its persistence call) has not begun while the import of any phase-1 entry
\* is still unsettled.
PhaseBarrier ==
    \A c \in ConfigNamed :
        Begun(c) => \A i \in PhaseOne : Settled(i)

PhaseBarrierWitness ==
    /\ Cardinality(PhaseOne) >= 2
    /\ \E c \in ConfigNamed : task[c].sent # <<>>

\* C2 - Once a phase-1 persistence call has failed, no import of a configuration
\* entry begins and no call reaches the Configs collection, completed is never
\* emitted without an error, and the finished operation has emitted completed
\* with an error.
Phase1SaveFailed == \E i \in PhaseOne : task[i].err = "PersistError"

FailedPhase1BlocksConfig ==
    Phase1SaveFailed =>
        /\ \A c \in ConfigNamed : ~Begun(c) /\ task[c].sent = <<>>
        /\ \A c \in EntryCalls : c.channel # <<"collections", "Configs">>
        /\ Count(log, "completed") = 0
        /\ pc \in {"phase1", "rejected", "done"}
        /\ (pc = "done" => Count(log, "completed:error") = 1)

FailedPhase1BlocksConfigWitness ==
    /\ Phase1SaveFailed
    /\ Deferred # 0
    /\ pc = "done"

\* C3 - An archive import without configuration entry whose phase-1 imports all
\* succeeded ends with completed emitted without an error payload.
NoConfigNoError ==
    ( /\ ArchiveImported
      /\ pc = "done"
      /\ ConfigNamed = {}
      /\ \A i \in PhaseOne : task[i].st = "ok" )
    => Count(log, "completed") = 1 /\ Count(log, "completed:error") = 0

\* C4 as stated - completed, with or without error, is emitted when no phase-1
\* import is unsettled, and no decode or persistence call begins after it.
CompletedAfterSettlement ==
    [][ /\ (~CompletedEmitted(log) /\ CompletedEmitted(log'))
              => \A i \in PhaseOne : Settled(i)
        /\ CompletedEmitted(log)
              => /\ \A i \in DOMAIN task : ~WorkBegins(i)
                 /\ keySent' = keySent ]_vars

\* C4 amended - completed without an error payload is emitted when no phase-1
\* import is unsettled and no decode or persistence call begins after it; after
\* completed with an error payload no import of a configuration entry begins
\* (phase-1 imports may still be unsettled and may still decode and persist).
CompletedOkAfterSettlement ==
    [][ /\ (Count(log, "completed") = 0 /\ Count(log', "completed") > 0)
              => \A i \in PhaseOne : Settled(i)
        /\ Count(log, "completed") > 0
              => /\ \A i \in DOMAIN task : ~WorkBegins(i)
                 /\ keySent' = keySent
        /\ CompletedEmitted(log)
              => /\ \A c \in ConfigNamed : ~Begun(c) => task'[c].st = "none"
                 /\ keySent' = keySent ]_vars

CompletedOkAfterSettlementWitness ==
    /\ Count(log, "completed") = 1
    /\ Cardinality(PhaseOne) >= 2
    /\ Deferred # 0
    /\ task[Deferred].st = "ok"

\* C5 - For an Archive or Key input, started is emitted once and first, before
\* the file read and any decode or persistence call; completed is emitted at
\* most once, and exactly once when nothing of the operation is pending any more.
Quiescent ==
    /\ pc \in {"done", "hung"}
    /\ \A i \in DOMAIN task : task[i].st \in {"none", "ok", "failed"}

SignalsOnce ==
    InputClass \in {"Archive", "Key"} =>
        /\ pc # "start" => Count(log, "started") = 1 /\ Pos(log, "started") = 1
        /\ pc = "start" => log = <<>> /\ task = <<>> /\ keySent = <<>>
        /\ Count(log, "completed") + Count(log, "completed:error") <= 1
        /\ Quiescent => Count(log, "completed") + Count(log, "completed:error") = 1

\* The file read of the path failed: nothing of the operation will run any more.
ReadFailed == pc = "hung"

\* C6 - Outcome signalling: completed without error comes with exactly one
\* scheduled reload, scheduled after it, and only when the path did not fail;
\* when the path failed (its chain rejected, or the read of its file failed)
\* no reload is scheduled or run, completed is never emitted without error, and
\* the operation, once nothing more of it will run, has emitted completed with
\* an error payload.
OutcomeSignalling ==
    /\ timers <= 1
    /\ timers = 1 <=> Count(log, "completed") = 1
    /\ Count(log, "completed") > 0 =>
          /\ reason = "none"
          /\ Count(log, "completed") = 1
          /\ Count(log, "completed:error") = 0
          /\ Count(log, "setTimeout") = 1
          /\ Pos(log, "completed") < Pos(log, "setTimeout")
    /\ reason # "none" =>
          /\ timers = 0
          /\ ~reloaded
          /\ Count(log, "setTimeout") = 0
          /\ pc = "done" => Count(log, "completed:error") = 1
    /\ ReadFailed =>
          /\ timers = 0
          /\ ~reloaded
          /\ Count(log, "completed") = 0
          /\ Count(log, "completed:error") = 1
    /\ (pc = "done" /\ reason = "none") => Count(log, "completed") = 1
    /\ reloaded => Count(log, "completed") = 1

\* C7 - No-op: with no input file or an Unknown first file the operation
\* resolves at once; it emits no signal, reads no file, opens no archive,
\* issues no persistence call and schedules no reload.
NoopOperation ==
    InputClass \in {"None", "Unknown"} =>
        /\ pc \in {"start", "noop"}
        /\ log = <<>>
        /\ zipFiles = <<>>
        /\ task = <<>>
        /\ keySent = <<>>
        /\ timers = 0
        /\ ~reloaded

NoopOperationWitness ==
    /\ pc = "noop"
    /\ files # <<>>
    /\ files[1].type = "text/plain"
    /\ DottedSuffix(files[1].name) = <<"asc">>
    /\ files[1].size = 2499

\* C8 - Classification: init() takes the archive path exactly for the files the
\* design calls Archive, the key path exactly for those it calls Key (size 2500
\* included, 2499 not), and does nothing exactly for those it calls Unknown.
Classification ==
    (pc # "start" /\ files # <<>>) =>
        /\ pc = "readingZip" <=> FileClass(files[1]) = "Archive"
        /\ pc = "readingKey" <=> FileClass(files[1]) = "Key"
        /\ pc = "noop"       <=> FileClass(files[1]) = "Unknown"

ClassificationWitness ==
    /\ pc = "readingKey"
    /\ files[1].size = 2500

\* C9 - A note entry without inline encrypted content whose sibling exists issues
\* no persistence call before the sibling is decoded (nor in the callback that
\* receives the sibling's text: the call comes in a later one), and its only
\* call is a notes saveModelObject whose record has the sibling's text as
\* content, with the profile id of segment[1] (notes-db read as default) and
\* dontValidate set.
NoteSiblingImport ==
    \A i \in DOMAIN task : NoteWithSibling(i) =>
        /\ task[i].st \in {"none", "decoding", "md", "ready"} => task[i].sent = <<>>
        /\ task[i].st \in {"ready", "saving", "ok"} =>
              /\ "content" \in DOMAIN task[i].data
              /\ task[i].data.content = SiblingText(i)
        /\ task[i].sent # <<>> =>
              /\ Len(task[i].sent) = 1
              /\ task[i].sent[1].channel = <<"collections", "Notes">>
              /\ task[i].sent[1].method = "saveModelObject"
              /\ "content" \in DOMAIN task[i].sent[1].args.data
              /\ task[i].sent[1].args.data.content = SiblingText(i)
              /\ task[i].sent[1].args.data.id = zipFiles[i].text.val.id
              /\ task[i].sent[1].args.profileId =
                    (IF Segment(i, 1) = <<"notes-db">> THEN <<"default">> ELSE Segment(i, 1))
              /\ task[i].sent[1].args.dontValidate = TRUE

NoteSiblingImportWitness ==
    \E i \in DOMAIN task :
        /\ NoteWithSibling(i)
        /\ Segment(i, 1) = <<"notes-db">>
        /\ task[i].st = "ok"
        /\ task[i].sent[1].args.data.content = Raw("hello")
        /\ task[i].sent[1].args.profileId = <<"default">>

\* C10 - A bulk-collection entry whose declared type is not whitelisted issues no
\* persistence call and, once decoded and parsed, is resolved: it fails only
\* when its decode or its JSON parse fails.
UnknownTypeAbsorbed ==
    \A i \in DOMAIN task : UnknownBulk(i) =>
        /\ task[i].sent = <<>>
        /\ task[i].st \in {"none", "decoding", "ok", "failed"}
        /\ task[i].st = "failed" => task[i].err \in {"DecodeError", "SyntaxError"}

UnknownTypeAbsorbedWitness ==
    \E i \in DOMAIN task : UnknownBulk(i) /\ task[i].st = "ok"

\* C11 - Key path failure: a failed read of the key file leaves no persistence
\* call and no reload and completed emitted with an error; a failed privateKey
\* save leaves no reload and, the operation finished, completed emitted with an
\* error.
KeyPathFailure ==
    InputClass = "Key" =>
        /\ pc = "hung" =>
              /\ keySent = <<>>
              /\ timers = 0
              /\ Count(log, "completed:error") = 1
        /\ reason = "PersistError" =>
              /\ timers = 0
              /\ Count(log, "completed") = 0
              /\ pc = "done" => Count(log, "completed:error") = 1

\* C12 - Phase-2 failure without rollback: once the import of the deferred
\* configuration entry has failed, every phase-1 import is still resolved with
\* its save as issued, only save calls were ever issued (at most one per
\* entry), no reload is scheduled, completed is never emitted without error and
\* the finished operation has emitted completed with an error.
Phase2Failed ==
    /\ Deferred # 0
    /\ task[Deferred].st = "failed"

PhaseTwoFailure ==
    Phase2Failed =>
        /\ \A i \in PhaseOne : task[i].st = "ok"
        /\ \A i \in DOMAIN task : Len(task[i].sent) <= 1
        /\ \A c \in EntryCalls : c.method \in {"saveModelObject", "saveFromArray"}
        /\ Count(log, "completed") = 0
        /\ timers = 0
        /\ ~reloaded
        /\ pc \in {"phase2", "rejected", "done"}
        /\ pc = "done" => Count(log, "completed:error") = 1

PhaseTwoFailureWitness ==
    /\ Phase2Failed
    /\ pc = "done"
    /\ \E i \in PhaseOne : task[i].st = "ok" /\ task[i].sent # <<>>

\* C13 - No forced cancellation: after a phase-1 import has failed, every step
\* of another phase-1 import is the step it would have taken anyway (its decode
\* resolves into the routing of readFile, persistence call included, or
\* rejects; its sibling's decode sets the content or rejects; its queued
\* callback issues the notes save; its save settles), also once completed was
\* emitted with the error; no import of a configuration entry begins.
NoForcedCancellation ==
    [][ (\E j \in PhaseOne : task[j].st = "failed") =>
          /\ \A c \in ConfigNamed : task'[c].st = "none"
          /\ \A i \in PhaseOne :
               task'[i] # task[i] =>
                 /\ task[i].st \in {"decoding", "md", "ready", "saving"}
                 /\ task[i].st = "decoding" =>
                       \/ task'[i] = readFile(zipFiles, zipFiles[i], zipFiles[i].text)
                       \/ task'[i] = Thrown(<<>>, "DecodeError")
                 /\ task[i].st = "md" =>
                       \/ /\ task'[i].st = "ready"
                          /\ "content" \in DOMAIN task'[i].data
                       \/ task'[i].st = "failed" /\ task'[i].err = "DecodeError"
                 /\ task[i].st = "ready" =>
                       /\ task'[i].st = "saving"
                       /\ Len(task'[i].sent) = 1
                       /\ task'[i].sent[1].channel = <<"collections", "Notes">>
                       /\ task'[i].sent[1].args.data = task[i].data
                 /\ task[i].st = "saving" =>
                       \/ task'[i].st = "ok"
                       \/ task'[i].st = "failed" /\ task'[i].err = "PersistError" ]_vars

NoForcedCancellationWitness ==
    /\ Count(log, "completed:error") = 1
    /\ \E j \in PhaseOne : task[j].st = "failed"
    /\ \E i \in PhaseOne : task[i].st = "saving"
    /\ \E i \in PhaseOne : task[i].st = "ready"

\* Entry i is a note record without inline encrypted content whose sibling is absent.
LonelyNote(i) ==
    /\ JsonEntry(i)
    /\ Segment(i, 2) = <<"notes">>
    /\ zipFiles[i].text.src = "json"
    /\ ~HasEncrypted(zipFiles[i].text.val)
    /\ ~\E j \in DOMAIN zipFiles :
         /\ ~zipFiles[j].dir
         /\ zipFiles[j].name = SubSeq(zipFiles[i].name, 1, Len(zipFiles[i].name) - 1) \o <<"md">>

\* C14 - Missing sibling body: a note without inline encrypted content whose
\* sibling is absent never issues a persistence call and fails once decoded;
\* an operation importing it never emits completed without error, schedules
\* no reload, and when finished has emitted completed with an error.
MissingSibling ==
    /\ \A i \in DOMAIN task : LonelyNote(i) =>
          /\ task[i].sent = <<>>
          /\ task[i].st \in {"none", "decoding", "failed"}
          /\ task[i].st = "failed" => task[i].err \in {"TypeError", "DecodeError"}
    /\ (\E i \in PhaseOne : LonelyNote(i)) =>
          /\ Count(log, "completed") = 0
          /\ timers = 0
          /\ pc = "done" => Count(log, "completed:error") = 1

MissingSiblingWitness ==
    /\ pc = "done"
    /\ \E i \in DOMAIN task : LonelyNote(i) /\ task[i].err = "TypeError"

\* Entry i is a note record that carries non-empty inline encrypted content.
EncryptedNote(i) ==
    /\ JsonEntry(i)
    /\ Segment(i, 2) = <<"notes">>
    /\ zipFiles[i].text.src = "json"
    /\ "encryptedData" \in DOMAIN zipFiles[i].text.val
    /\ zipFiles[i].text.val.encryptedData # <<>>

\* The profile id the design derives from segment[1] of entry i.
EntryProfile(i) ==
    IF Segment(i, 1) = <<"notes-db">> THEN <<"default">> ELSE Segment(i, 1)

\* C15 - Self-contained encrypted note: a note with non-empty inline encrypted
\* content never waits for a sibling's decode, whether the sibling exists or
\* not; once decoded its record stays exactly as parsed from the JSON and the
\* notes save it then issues carries that record, and it fails only if its own
\* decode or its save fails.
SelfContainedNote ==
    \A i \in DOMAIN task : EncryptedNote(i) =>
        /\ task[i].st # "md"
        /\ task[i].st \in {"ready", "saving", "ok"} => task[i].data = zipFiles[i].text.val
        /\ task[i].st = "failed" => task[i].err \in {"DecodeError", "PersistError"}
        /\ task[i].st \in {"saving", "ok"} => task[i].sent # <<>>
        /\ task[i].sent # <<>> =>
              task[i].sent =
                 << [channel |-> <<"collections", "Notes">>, method |-> "saveModelObject",
                     args |-> [data |-> zipFiles[i].text.val, profileId |-> EntryProfile(i),
                               dontValidate |-> TRUE]] >>

SelfContainedNoteWitness ==
    \E i \in DOMAIN task :
        /\ EncryptedNote(i)
        /\ task[i].st = "ok"
        /\ task[i].sent[1].args.data.content = Raw("inline")
        /\ \E j \in DOMAIN zipFiles :
              zipFiles[j].name = SubSeq(zipFiles[i].name, 1, Len(zipFiles[i].name) - 1) \o <<"md">>

\* The collection a whitelisted type name is saved to.
TitleCased(type) ==
    CASE type = <<"notebooks">> -> "Notebooks"
      [] type = <<"tags">>      -> "Tags"
      [] type = <<"configs">>   -> "Configs"
      [] type = <<"users">>     -> "Users"
      [] type = <<"files">>     -> "Files"
      [] OTHER                  -> "none"

\* C16 - Routing: an entry issues at most one persistence call; the call carries
\* the profile id of segment[1] (notes-db read as default) and goes, by
\* segment[2], to Notes (saveModelObject), to Files (saveModelObject with the
\* decoded record) or, for a whitelisted <type>.json, to the title-cased
\* collection as one saveFromArray with the whole decoded array.
Routing ==
    \A i \in DOMAIN task :
        /\ Len(task[i].sent) <= 1
        /\ task[i].sent # <<>> =>
              /\ task[i].sent[1].args.profileId = EntryProfile(i)
              /\ IF Segment(i, 2) = <<"notes">>
                 THEN /\ task[i].sent[1].channel = <<"collections", "Notes">>
                      /\ task[i].sent[1].method = "saveModelObject"
                 ELSE IF Segment(i, 2) = <<"files">>
                 THEN /\ task[i].sent[1].channel = <<"collections", "Files">>
                      /\ task[i].sent[1].method = "saveModelObject"
                      /\ task[i].sent[1].args.data = zipFiles[i].text.val
                 ELSE /\ TitleCased(Split(Segment(i, 2), <<".", "json">>)[1]) # "none"
                      /\ task[i].sent[1].channel =
                            <<"collections", TitleCased(Split(Segment(i, 2), <<".", "json">>)[1])>>
                      /\ task[i].sent[1].method = "saveFromArray"
                      /\ task[i].sent[1].args.values = zipFiles[i].text.val

RoutingWitness ==
    /\ \E i \in DOMAIN task :
          Segment(i, 2) = <<"notebooks", ".", "json">> /\ task[i].st = "ok"
    /\ \E i \in DOMAIN task :
          Segment(i, 1) = <<"notes-db">> /\ task[i].st = "ok"

\* The archive's only eligible entry is one configuration entry.
OnlyConfig ==
    /\ ArchiveImported
    /\ PhaseOne = {}
    /\ Cardinality(ConfigNamed) = 1

\* C17 - Empty phase 1: when the only eligible entry is the configuration entry,
\* its import begins as soon as phase 1 is over, its save goes to Configs as a
\* saveFromArray, the operation fails only if that import failed, and once it
\* succeeded the finished operation has emitted completed without error.
EmptyPhaseOne ==
    OnlyConfig =>
        /\ pc # "phase1" => Begun(Deferred)
        /\ task[Deferred].st \in {"saving", "ok"} =>
              /\ Len(task[Deferred].sent) = 1
              /\ task[Deferred].sent[1].channel = <<"collections", "Configs">>
              /\ task[Deferred].sent[1].method = "saveFromArray"
        /\ reason # "none" => task[Deferred].st = "failed"
        /\ (pc = "done" /\ task[Deferred].st = "ok") =>
              Count(log, "completed") = 1 /\ Count(log, "completed:error") = 0

EmptyPhaseOneWitness ==
    /\ OnlyConfig
    /\ Len(zipFiles) = 3
    /\ \E i \in DOMAIN zipFiles : zipFiles[i].dir
    /\ Count(log, "completed") = 1

\* C18 - Key path effect: the key path opens no archive and imports no entry;
\* it issues no call before the text is read and then exactly one, saveConfig
\* on Configs with name privateKey and the text read as value.
KeyPathEffect ==
    InputClass = "Key" =>
        /\ zipFiles = <<>>
        /\ task = <<>>
        /\ Count(log, "readAsArrayBuffer") = 0
        /\ pc \in {"start", "readingKey", "hung"} => keySent = <<>> /\ keyText = "none"
        /\ Len(keySent) <= 1
        /\ keySent # <<>> =>
              /\ keyText \in KeyTexts
              /\ keySent[1] =
                    [channel |-> <<"collections", "Configs">>, method |-> "saveConfig",
                     args |-> [config |-> [value |-> keyText, name |-> "privateKey"]]]
        /\ Count(log, "completed") = 1 => Len(keySent) = 1

KeyPathEffectWitness ==
    /\ InputClass = "Key"
    /\ Count(log, "completed") = 1
    /\ keyText = "KEY-B"
    /\ reloaded

\* C19 - No entry is dropped: when an archive import has emitted completed
\* without error, the import of every non-directory entry with suffix json has
\* begun (and issued at most one call), several configuration entries included.
NoEntryDropped ==
    (ArchiveImported /\ Count(log, "completed") = 1) =>
        \A i \in DOMAIN zipFiles :
            (~zipFiles[i].dir /\ DottedSuffix(zipFiles[i].name) = <<"json">>) =>
                Begun(i) /\ Len(task[i].sent) <= 1

====
